---------------------------- MODULE Spec2Model ----------------------------
(***************************************************************************)
(* Model of the MRT2 image scripts:                                        *)
(*   src/generate_icons.py                    (background/hole removal,    *)
(*                                             trim, resize-and-centre,    *)
(*                                             icon emission)              *)
(*   src/public/Marketing/slice_personas.py   (quadrant slicer)            *)
(*                                                                         *)
(* Two specifications share the variables:                                 *)
(*   Spec     one run of generate_pwa_icons or slice_image_into_quadrants  *)
(*            over the filesystem; the image is carried by its size.       *)
(*   SpecImg  one call of remove_background_and_inner_holes over a small   *)
(*            RGBA raster, pixel by pixel.                                 *)
(***************************************************************************)
EXTENDS Integers, Sequences, FiniteSets

VARIABLES
    prog,       \* which routine runs: "icons" | "slice" | "filter"
    pc,         \* position inside the routine
    diag,       \* diagnostic printed by an error exit, or "none"
    raised,     \* exception that left the routine uncaught, or "none"
    srcExists,  \* os.path.exists(source path)
    dirExists,  \* os.path.exists("pwa-assets")
    files,      \* output file name -> "absent" | "old" | "new" | "partial"
    dir0,       \* dirExists when the routine was invoked
    files0,     \* files when the routine was invoked
    width,      \* img.width  / original_img.size[0]
    height,     \* img.height / original_img.size[1]
    idx,        \* 1-based position in the icons list / the cuts dict
    cur,        \* generate_pwa_icons: the icon whose locals are held below
    max_dim,    \* generate_pwa_icons: locals of the last iteration
    new_w,
    new_h,
    x_pos,
    y_pos,
    cuts,       \* slice_image_into_quadrants: the four crop boxes
    img,        \* remove_background_and_inner_holes: pixel -> RGBA
    src,        \* the raster as it was passed in (after convert("RGBA"))
    before,     \* the raster before the step taken last
    seed,       \* seed of the flood taken last, or NoSeed
    cropBox     \* the rectangle handed to img.crop, or NoBox

vars == << prog, pc, diag, raised, srcExists, dirExists, files, dir0, files0,
           width, height, idx, max_dim, new_w, new_h, x_pos, y_pos, cuts,
           img, src, before, seed, cropBox >>

fsVars == << srcExists, dirExists, files, dir0, files0 >>
resizeVars == << cur, max_dim, new_w, new_h, x_pos, y_pos >>
rasterVars == << img, src, before, seed, cropBox >>

-----------------------------------------------------------------------------
(* Bounds of the model.                                                    *)

\* Working-image sides 1..MaxDim are enumerated for the resize arithmetic.
MaxDim == 10
\* Composite-image sides 1..MaxSide are enumerated for the slicer.
MaxSide == 5
\* Sides of extremely wide or tall trimmed logos, beyond 1..MaxDim.
WideDims == {65, 600}

Dims == (1..MaxDim) \cup WideDims

NoSeed == << -1, -1 >>
NoBox == << >>
NoRaster == << >>

-----------------------------------------------------------------------------
(* Python arithmetic of generate_pwa_icons, lines 86-101.                  *)

RECURSIVE Pow2(_)
Pow2(n) == IF n <= 0 THEN 1 ELSE 2 * Pow2(n - 1)

\* (2^e * b) mod m, by repeated doubling; every intermediate is below 2*m.
RECURSIVE MulPow2Mod(_, _, _)
MulPow2Mod(b, e, m) == IF e = 0 THEN b % m ELSE MulPow2Mod((2 * b) % m, e - 1, m)

\* j >= 0 with 2^j <= w/h < 2^(j+1), for w >= h.
RECURSIVE RatioExpUp(_, _, _)
RatioExpUp(w, h, j) == IF w >= h * Pow2(j + 1) THEN RatioExpUp(w, h, j + 1) ELSE j

\* least j >= 0 with w * 2^j >= h, for w <= h: 2^-j <= w/h < 2^-(j-1).
RECURSIVE RatioExpDown(_, _, _)
RatioExpDown(w, h, j) == IF w * Pow2(j) < h THEN RatioExpDown(w, h, j + 1) ELSE j

\* k >= -1 with 2^k < n <= 2^(k+1), for n >= 1.
RECURSIVE BelowExp(_, _)
BelowExp(n, k) == IF Pow2(k + 1) < n THEN BelowExp(n, k + 1) ELSE k

(***************************************************************************)
(* img_ratio = img.width / img.height is an IEEE-754 double: the quotient  *)
(* rounded to a 53-bit significand m, img_ratio = m / 2^s with             *)
(* 2^52 <= m < 2^53.  RatioErr is the signed rounding error scaled to an   *)
(* integer, m*h - w*2^s: minus the remainder when the quotient was rounded *)
(* down, h minus the remainder when it was rounded up (a tie needs h to    *)
(* hold a factor 2^53 and does not occur for image sides).                 *)
(***************************************************************************)
RatioErr(w, h, s) ==
    LET rho == MulPow2Mod(w, s, h)
    IN  IF 2 * rho < h THEN 0 - rho ELSE h - rho

(***************************************************************************)
(* Line 95, new_w = int(max_dim * img_ratio), taken when img_ratio <= 1.   *)
(* When max_dim*w/h is not an integer the double product lies within       *)
(* 2^-43 of it and int() floors to the exact floor.  When it is an integer *)
(* N, the exact product max_dim*m/2^s is N + M*err/(h*2^s); the double     *)
(* product is the neighbour below N, and int() gives N-1, exactly when     *)
(* that offset is below minus half the spacing 2^(k-52) of the doubles     *)
(* under N (2^k < N <= 2^(k+1)); with s = 52+j this is                     *)
(* 4*M*(-err) > h * 2^(j+k+1).                                             *)
(***************************************************************************)
IntMulRatio(M, w, h) ==
    LET exact == (M * w) \div h
        j     == RatioExpDown(w, h, 0)
        err   == RatioErr(w, h, 52 + j)
        k     == BelowExp(exact, -1)
    IN  IF (M * w) % h # 0 \/ exact = 0 THEN exact
        ELSE IF err < 0 /\ 4 * M * (0 - err) > h * Pow2(j + k + 1)
             THEN exact - 1
             ELSE exact

(***************************************************************************)
(* Line 92, new_h = int(max_dim / img_ratio), taken when img_ratio > 1.    *)
(* With N = max_dim*h/w an integer, the exact quotient max_dim*2^s/m is    *)
(* N - M*err/(m*w); the double quotient falls below N exactly when err > 0 *)
(* and err*M*h*2^(2+j) > w*w*2^(k+1), where s = 52-j.                      *)
(***************************************************************************)
IntDivRatio(M, w, h) ==
    LET exact == (M * h) \div w
        j     == RatioExpUp(w, h, 0)
        err   == RatioErr(w, h, 52 - j)
        k     == BelowExp(exact, -1)
    IN  IF (M * h) % w # 0 \/ exact = 0 THEN exact
        ELSE IF err > 0 /\ err * M * h * Pow2(2 + j) > w * w * Pow2(k + 1)
             THEN exact - 1
             ELSE exact

\* The icons list, lines 67-73: (filename, size, padding_pct in percent).
Icons == << << "favicon.ico", 64, 0 >>,
            << "apple-touch-icon-180x180.png", 180, 0 >>,
            << "pwa-192x192.png", 192, 0 >>,
            << "pwa-512x512.png", 512, 0 >>,
            << "maskable-icon-512x512.png", 512, 10 >> >>

IconName(k) == Icons[k][1]
IconSize(k) == Icons[k][2]
IconPad(k) == Icons[k][3]

\* Line 86: max_dim = int(size * (1 - padding_pct * 2)); the padding is
\* 0.0 or 0.10, for which the double product floors to the exact floor.
MaxDimOf(size, pad) == (size * (100 - 2 * pad)) \div 100

\* Mutation of ResizeDims: the orientation test compares the wrong way.
ResizeDimsSwapped(M, w, h) ==
    IF w < h THEN << M, IntDivRatio(M, w, h) >>
             ELSE << IntMulRatio(M, w, h), M >>

\* Lines 89-95: the resize target (new_w, new_h).
ResizeDims(M, w, h) ==
    IF w > h THEN << M, IntDivRatio(M, w, h) >>
             ELSE << IntMulRatio(M, w, h), M >>

\* Mutation of CenterPos: the leftover is halved rounding up.
CenterPosCeil(size, extent) == (size - extent + 1) \div 2

\* Lines 100-101: paste offset on one axis.
CenterPos(size, extent) == (size - extent) \div 2

\* Line 97: Image.resize refuses a target with a side below one pixel.
ResizeRaises(nw, nh) == nw < 1 \/ nh < 1


-----------------------------------------------------------------------------
(* slice_image_into_quadrants, lines 20-30.                                *)

\* Mutation of Mid: the midpoint rounded up.
MidUp(side) == (side + 1) \div 2

\* Lines 20-21: the midpoint of one side.
Mid(side) == side \div 2

\* Lines 25-30: the cuts dict in insertion order, (filename, crop box);
\* a box is (left, upper, right, lower).
Cuts(w, h) ==
    << << "Ned_The_Pink_Cloud.jpg",    << 0, 0, Mid(w), Mid(h) >> >>,
       << "Lisa_The_Service_Pro.jpg",  << Mid(w), 0, w, Mid(h) >> >>,
       << "Walt_The_Zen_Master.jpg",   << 0, Mid(h), Mid(w), h >> >>,
       << "David_The_Fresh_Start.jpg", << Mid(w), Mid(h), w, h >> >> >>

NoCuts == << >>

IconNames == { Icons[k][1] : k \in 1..Len(Icons) }
SliceNames == { Cuts(1, 1)[k][1] : k \in 1..4 }
FileNames == IconNames \cup SliceNames

-----------------------------------------------------------------------------
(* Control flow of the two entry points.                                   *)

\* generate_icons.py line 52 / slice_personas.py line 12: return.
OnMissingSource == "returned"

\* Mutation of OnProcessError: the handler prints and falls through.
OnProcessErrorFallsThrough == "mkdir"

\* generate_icons.py line 64: return out of the except handler.
OnProcessError == "returned"

\* Mutation of OnSaveError: the exception is swallowed and the loop goes on.
OnSaveErrorSwallowed == "loop"

\* generate_icons.py lines 105-109: canvas.save is outside any try, so an
\* exception leaves generate_pwa_icons.
OnSaveError == "crashed"

\* What a save that raised leaves of its own file: nothing new, or a
\* truncated file.
AfterFailedSave(f, name) == { f, [f EXCEPT ![name] = "partial"] }

InitRun ==
    /\ prog \in {"icons", "slice"}
    /\ pc = "start"
    /\ diag = "none"
    /\ raised = "none"
    /\ srcExists \in BOOLEAN
    /\ dirExists \in BOOLEAN
    /\ \E stale \in BOOLEAN :
         files = [n \in FileNames |->
                    IF stale /\ (n \in SliceNames \/ dirExists)
                    THEN "old" ELSE "absent"]
    /\ dir0 = dirExists
    /\ files0 = files
    /\ width = 0 /\ height = 0 /\ idx = 0
    /\ cur = 0 /\ max_dim = 0 /\ new_w = 0 /\ new_h = 0 /\ x_pos = 0 /\ y_pos = 0
    /\ cuts = NoCuts
    /\ img = NoRaster /\ src = NoRaster /\ before = NoRaster
    /\ seed = NoSeed /\ cropBox = NoBox

\* generate_icons.py lines 50-52, slice_personas.py lines 10-12.
CheckSource ==
    /\ prog \in {"icons", "slice"}
    /\ pc = "start"
    /\ IF srcExists
       THEN pc' = "open" /\ diag' = diag
       ELSE pc' = OnMissingSource /\ diag' = "not_found"
    /\ UNCHANGED << prog, raised, fsVars, width, height, idx, resizeVars, cuts,
                    rasterVars >>

\* generate_icons.py lines 54-64: an exception of Image.open or of
\* remove_background_and_inner_holes is caught and reported.
IconsOpenFails ==
    /\ prog = "icons"
    /\ pc = "open"
    /\ diag' = "processing_error"
    /\ pc' = OnProcessError
    /\ UNCHANGED << prog, raised, fsVars, width, height, idx, resizeVars, cuts,
                    rasterVars >>

\* generate_icons.py lines 56-60: img is the trimmed RGBA image.
IconsOpen ==
    /\ prog = "icons"
    /\ pc = "open"
    /\ width' \in Dims
    /\ height' \in Dims
    /\ pc' = "mkdir"
    /\ UNCHANGED << prog, diag, raised, fsVars, idx, resizeVars, cuts, rasterVars >>

\* generate_icons.py lines 75-79.
MakeOutputDir ==
    /\ prog = "icons"
    /\ pc = "mkdir"
    /\ dirExists' = TRUE
    /\ idx' = 1
    /\ pc' = "loop"
    /\ UNCHANGED << prog, diag, raised, srcExists, files, dir0, files0, width,
                    height, resizeVars, cuts, rasterVars >>

\* generate_icons.py lines 81-113: one iteration of the loop over icons.
IconStep ==
    /\ prog = "icons"
    /\ pc = "loop"
    /\ LET size == IconSize(idx)
           M    == MaxDimOf(size, IconPad(idx))
           d    == ResizeDims(M, width, height)
       IN  /\ cur' = idx
           /\ max_dim' = M
           /\ new_w' = d[1]
           /\ new_h' = d[2]
           /\ IF ResizeRaises(d[1], d[2])
              THEN /\ pc' = "crashed"
                   /\ raised' = "resize"
                   /\ UNCHANGED << x_pos, y_pos, files, idx >>
              ELSE /\ x_pos' = CenterPos(size, d[1])
                   /\ y_pos' = CenterPos(size, d[2])
                   /\ \E saved \in BOOLEAN :
                        IF saved
                        THEN /\ files' = [files EXCEPT ![IconName(idx)] = "new"]
                             /\ idx' = idx + 1
                             /\ pc' = IF idx = Len(Icons) THEN "done" ELSE "loop"
                             /\ raised' = raised
                        ELSE /\ files' \in AfterFailedSave(files, IconName(idx))
                             /\ idx' = idx
                             /\ pc' = OnSaveError
                             /\ raised' = "save"
    /\ UNCHANGED << prog, diag, srcExists, dirExists, dir0, files0, width, height,
                    cuts, rasterVars >>

\* slice_personas.py lines 14-16, 43-44: Image.open raises, caught.
SliceOpenFails ==
    /\ prog = "slice"
    /\ pc = "open"
    /\ diag' = "error"
    /\ pc' = "returned"
    /\ UNCHANGED << prog, raised, fsVars, width, height, idx, resizeVars, cuts,
                    rasterVars >>

\* slice_personas.py lines 16-30.
SliceOpen ==
    /\ prog = "slice"
    /\ pc = "open"
    /\ \E w \in 1..MaxSide, h \in 1..MaxSide :
         /\ width' = w
         /\ height' = h
         /\ cuts' = Cuts(w, h)
    /\ idx' = 1
    /\ pc' = "cut"
    /\ UNCHANGED << prog, diag, raised, fsVars, resizeVars, rasterVars >>

\* slice_personas.py lines 33-44: one iteration of the loop over cuts; an
\* exception of crop or save is caught by the handler of line 43.
SliceCut ==
    /\ prog = "slice"
    /\ pc = "cut"
    /\ \E saved \in BOOLEAN :
         IF saved
         THEN /\ files' = [files EXCEPT ![cuts[idx][1]] = "new"]
              /\ idx' = idx + 1
              /\ pc' = IF idx = Len(cuts) THEN "done" ELSE "cut"
              /\ diag' = diag
         ELSE /\ files' \in AfterFailedSave(files, cuts[idx][1])
              /\ idx' = idx
              /\ pc' = "returned"
              /\ diag' = "error"
    /\ UNCHANGED << prog, raised, srcExists, dirExists, dir0, files0, width, height,
                    resizeVars, cuts, rasterVars >>

Next ==
    \/ CheckSource
    \/ IconsOpenFails
    \/ IconsOpen
    \/ MakeOutputDir
    \/ IconStep
    \/ SliceOpenFails
    \/ SliceOpen
    \/ SliceCut

Spec == InitRun /\ [][Next]_vars

-----------------------------------------------------------------------------
(* remove_background_and_inner_holes over a raster: pixel <<x, y>> -> RGBA. *)

\* Largest raster enumerated: MaxW columns by MaxH rows.
MaxW == 3
MaxH == 5
\* Pixels that differ from the raster's base colour.
MaxInk == 2

\* fuzz as generate_pwa_icons passes it (line 59).
Fuzz == 60

\* Colours of the enumerated rasters, RGBA after convert("RGBA").  Pearl is
\* near-white for is_near_white (every channel above 255 - 60) and farther
\* than Fuzz from White for floodfill (1-norm 75).
White == << 255, 255, 255, 255 >>
Pearl == << 230, 230, 230, 255 >>
Dark  == << 30, 30, 30, 255 >>
Palette == { White, Pearl, Dark }

\* value=(0, 0, 0, 0) of every floodfill call, and what crop pads with.
Clear == << 0, 0, 0, 0 >>

Pix(w, h) == (0..(w - 1)) \X (0..(h - 1))

Abs(n) == IF n < 0 THEN 0 - n ELSE n

\* pixel[x, y] = v on a raster.
PutPixel(r, p, v) == [q \in DOMAIN r |-> IF q = p THEN v ELSE r[q]]

\* is_near_white, lines 4-8.
IsNearWhite(pixel, fuzz) ==
    pixel[1] > 255 - fuzz /\ pixel[2] > 255 - fuzz /\ pixel[3] > 255 - fuzz

\* ImageDraw._color_diff as floodfill uses it on RGBA tuples: the 1-norm.
ColorDiff(c1, c2) ==
    Abs(c1[1] - c2[1]) + Abs(c1[2] - c2[2]) + Abs(c1[3] - c2[3]) + Abs(c1[4] - c2[4])

Adjacent(p) ==
    { << p[1] + 1, p[2] >>, << p[1] - 1, p[2] >>,
      << p[1], p[2] + 1 >>, << p[1], p[2] - 1 >> }

(***************************************************************************)
(* The loop of ImageDraw.floodfill (border=None), one round per call: the  *)
(* 4-neighbours of the current edge that are inside the image, were not in *)
(* the previous edge, and lie within thresh of the seed's original colour  *)
(* are filled and form the next edge.                                      *)
(***************************************************************************)
RECURSIVE FloodRounds(_, _, _, _, _, _)
FloodRounds(r, edge, full_edge, background, value, thresh) ==
    IF edge = {} THEN r
    ELSE LET cand == { q \in UNION { Adjacent(p) : p \in edge } :
                         q \notin full_edge /\ q \in DOMAIN r }
             new_edge == { q \in cand : ColorDiff(r[q], background) <= thresh }
             filled == [q \in DOMAIN r |-> IF q \in new_edge THEN value ELSE r[q]]
         IN  FloodRounds(filled, new_edge, edge, background, value, thresh)

\* ImageDraw.floodfill(img, xy, value, thresh) as lines 21-24 and 38 call
\* it: nothing happens when the seed already is within thresh of value.
FloodFill(r, xy, value, thresh) ==
    IF ColorDiff(value, r[xy]) <= thresh
    THEN r
    ELSE FloodRounds(PutPixel(r, xy, value), {xy}, {}, r[xy], value, thresh)

\* Lines 21-24: the four seeds in call order.
Corner(k, w, h) ==
    CASE k = 1 -> << 0, 0 >>
      [] k = 2 -> << w - 1, 0 >>
      [] k = 3 -> << 0, h - 1 >>
      [] k = 4 -> << w - 1, h - 1 >>

\* Line 29.
CenterX(w) == w \div 2

\* Mutation of ScanDepth: the whole centre line is scanned.
ScanDepthWhole(h) == h

\* Line 30: int(height * 0.4); the double product floors to floor(2h/5).
ScanDepth(h) == (2 * h) \div 5

\* Line 36: the test of the scan.
IsHit(pixel) == IsNearWhite(pixel, Fuzz) /\ pixel[4] > 0

\* Lines 32-39: the first row of the scan window whose centre pixel is a
\* hit, as a seed, or NoSeed.
FirstHit(r, w, h) ==
    LET rows == { y \in 0..(ScanDepth(h) - 1) : IsHit(r[<< CenterX(w), y >>]) }
    IN  IF rows = {} THEN NoSeed
        ELSE << CenterX(w), CHOOSE y \in rows : \A z \in rows : y <= z >>

\* Line 42: Image.getbbox on RGBA, the bounding box of the pixels with
\* nonzero alpha, (left, upper, right, lower) with right and lower
\* exclusive, or NoBox when there is none.
BBox(r) ==
    LET solid == { p \in DOMAIN r : r[p][4] # 0 }
        xs == { p[1] : p \in solid }
        ys == { p[2] : p \in solid }
        min(S) == CHOOSE a \in S : \A b \in S : a <= b
        max(S) == CHOOSE a \in S : \A b \in S : a >= b
    IN  IF solid = {} THEN NoBox
        ELSE << min(xs), min(ys), max(xs) + 1, max(ys) + 1 >>

\* Mutation of TrimBox: the crop is the bounding box itself.
TrimBoxTight(bbox) == bbox

\* Line 45: the rectangle handed to img.crop.
TrimBox(bbox) == << bbox[1] - 1, bbox[2] - 1, bbox[3] + 1, bbox[4] + 1 >>

\* Image.crop(box): the pixels of the box, zero where the box leaves the
\* image.
Crop(r, box) ==
    [q \in Pix(box[3] - box[1], box[4] - box[2]) |->
        LET p == << box[1] + q[1], box[2] + q[2] >>
        IN  IF p \in DOMAIN r THEN r[p] ELSE Clear]

\* The rasters enumerated: a base colour and at most MaxInk pixels of other
\* palette colours.  An ink list names the inked pixels by row-major rank,
\* in increasing order, each with its colour.
RECURSIVE InkLists(_, _, _, _)
InkLists(n, area, from, colours) ==
    IF n = 0 THEN { << >> }
    ELSE { << >> } \cup
         UNION { { << << k, c >> >> \o rest :
                     rest \in InkLists(n - 1, area, k + 1, colours) } :
                 << k, c >> \in (from..(area - 1)) \X colours }

Painted(w, h, base, ink) ==
    [p \in Pix(w, h) |->
        LET at == { i \in 1..Len(ink) : ink[i][1] = p[2] * w + p[1] }
        IN  IF at = {} THEN base ELSE ink[CHOOSE i \in at : TRUE][2]]

InitImg ==
    /\ prog = "filter"
    /\ pc = "corner"
    /\ idx = 1
    /\ diag = "none" /\ raised = "none"
    /\ srcExists = TRUE /\ dirExists = FALSE
    /\ files = [n \in FileNames |-> "absent"]
    /\ dir0 = dirExists /\ files0 = files
    /\ cur = 0 /\ max_dim = 0 /\ new_w = 0 /\ new_h = 0 /\ x_pos = 0 /\ y_pos = 0
    /\ cuts = NoCuts
    /\ \E w \in 1..MaxW, h \in 1..MaxH, base \in Palette :
         /\ width = w
         /\ height = h
         /\ \E ink \in InkLists(MaxInk, w * h, 0, Palette \ {base}) :
              img = Painted(w, h, base, ink)
    /\ src = img
    /\ before = img
    /\ seed = NoSeed
    /\ cropBox = NoBox

filterFrame == << prog, diag, raised, fsVars, width, height, resizeVars, cuts, src >>

\* Lines 21-24: the idx-th corner flood.
CornerFlood ==
    /\ prog = "filter"
    /\ pc = "corner"
    /\ before' = img
    /\ seed' = Corner(idx, width, height)
    /\ img' = FloodFill(img, Corner(idx, width, height), Clear, Fuzz)
    /\ IF idx = 4 THEN pc' = "scan" /\ idx' = idx
                  ELSE pc' = pc /\ idx' = idx + 1
    /\ cropBox' = cropBox
    /\ UNCHANGED filterFrame

\* Lines 29-39: the scan of the centre line and the flood it seeds.
HoleScan ==
    /\ prog = "filter"
    /\ pc = "scan"
    /\ before' = img
    /\ seed' = FirstHit(img, width, height)
    /\ img' = IF seed' = NoSeed THEN img ELSE FloodFill(img, seed', Clear, Fuzz)
    /\ pc' = "trim"
    /\ UNCHANGED << idx, cropBox >>
    /\ UNCHANGED filterFrame

\* Lines 42-47: the trim and the return.
Trim ==
    /\ prog = "filter"
    /\ pc = "trim"
    /\ before' = img
    /\ LET bbox == BBox(img)
       IN  IF bbox # NoBox
           THEN /\ cropBox' = TrimBox(bbox)
                /\ img' = Crop(img, TrimBox(bbox))
           ELSE /\ cropBox' = NoBox
                /\ img' = img
    /\ pc' = "done"
    /\ UNCHANGED << idx, seed >>
    /\ UNCHANGED filterFrame

NextImg ==
    \/ CornerFlood
    \/ HoleScan
    \/ Trim

SpecImg == InitImg /\ [][NextImg]_vars

-----------------------------------------------------------------------------
(* Properties of the runs (Spec).                                          *)

BoxW(b) == b[3] - b[1]
BoxH(b) == b[4] - b[2]
InBox(x, y, b) == b[1] <= x /\ x < b[3] /\ b[2] <= y /\ y < b[4]

\* C1: once the slicer has computed its cuts for a W x H image, the four
\* boxes measure (W//2, H//2), (W - W//2, H//2), (W//2, H - H//2) and
\* (W - W//2, H - H//2), lie inside the image, and every pixel of the image
\* is in exactly one of them.
C1_QuadrantsTile ==
    (prog = "slice" /\ cuts # NoCuts) =>
        LET W == width
            H == height
            box(k) == cuts[k][2]
        IN  /\ << BoxW(box(1)), BoxH(box(1)) >> = << W \div 2, H \div 2 >>
            /\ << BoxW(box(2)), BoxH(box(2)) >> = << W - (W \div 2), H \div 2 >>
            /\ << BoxW(box(3)), BoxH(box(3)) >> = << W \div 2, H - (H \div 2) >>
            /\ << BoxW(box(4)), BoxH(box(4)) >> = << W - (W \div 2), H - (H \div 2) >>
            /\ \A k \in 1..4 :
                 /\ 0 <= box(k)[1] /\ box(k)[1] <= box(k)[3] /\ box(k)[3] <= W
                 /\ 0 <= box(k)[2] /\ box(k)[2] <= box(k)[4] /\ box(k)[4] <= H
            /\ \A x \in 0..(W - 1), y \in 0..(H - 1) :
                 Cardinality({ k \in 1..4 : InBox(x, y, box(k)) }) = 1

\* C1 witness: a 3 x 5 composite (both sides odd) has been cut into four files.
C1_Witness ==
    /\ prog = "slice" /\ pc = "done" /\ width = 3 /\ height = 5
    /\ \A n \in SliceNames : files[n] = "new"

\* C2: after the missing-source diagnostic of either routine, or the
\* processing-error diagnostic of generate_pwa_icons, the routine has
\* returned and the filesystem is as it was when the routine was invoked:
\* no file written, pwa-assets not created.
C2_ErrorExitsLeaveFilesystem ==
    diag \in {"not_found", "processing_error"} =>
        /\ pc = "returned"
        /\ raised = "none"
        /\ dirExists = dir0
        /\ files = files0

\* C2 witness: generate_pwa_icons returned from its except handler with no
\* pwa-assets directory present.
C2_Witness ==
    /\ prog = "icons" /\ diag = "processing_error" /\ pc = "returned"
    /\ ~dirExists

\* The exact quotient floor(max_dim * min(w,h) / max(w,h)).
ExactOther == (max_dim * (IF width > height THEN height ELSE width))
                 \div (IF width > height THEN width ELSE height)
Larger == IF width > height THEN new_w ELSE new_h
Other == IF width > height THEN new_h ELSE new_w

\* C5 as stated: in every iteration max_dim = floor(S * (1 - 2P)), the larger
\* dimension of the resize target is max_dim and the other one is
\* floor(max_dim * min(w,h) / max(w,h)).
C5_Original ==
    cur >= 1 =>
        /\ max_dim = (IconSize(cur) * (100 - 2 * IconPad(cur))) \div 100
        /\ Larger = max_dim
        /\ Other = ExactOther

\* C5 amended: the larger dimension is max_dim; the other one is
\* floor(max_dim * min(w,h) / max(w,h)) when max(w,h) does not divide
\* max_dim * min(w,h), and that quotient or one less when it does; in both
\* cases it is within one pixel of max_dim * min(w,h) / max(w,h).
C5_ProportionalResize ==
    cur >= 1 =>
        LET lo == IF width > height THEN height ELSE width
            hi == IF width > height THEN width ELSE height
        IN  /\ max_dim = (IconSize(cur) * (100 - 2 * IconPad(cur))) \div 100
            /\ Larger = max_dim
            /\ Other \in {ExactOther, ExactOther - 1}
            /\ (max_dim * lo) % hi # 0 => Other = ExactOther
            /\ Other * hi <= max_dim * lo
            /\ max_dim * lo <= (Other + 1) * hi

\* C5 witness: a 7 x 10 image resized for the 180 px icon, where the double
\* product 180 * 0.7 truncates to 125.
C5_Witness ==
    /\ cur = 2 /\ width = 7 /\ height = 10
    /\ new_w = 125 /\ new_h = 180

\* C6: whenever content has been pasted, the offset on each axis is
\* floor((S - extent) / 2), the content lies inside the S x S canvas, and
\* the trailing margin minus the leading margin is 0 or 1.
C6_Centering ==
    (cur >= 1 /\ ~ResizeRaises(new_w, new_h)) =>
        LET S == IconSize(cur)
        IN  /\ 2 * x_pos <= S - new_w /\ S - new_w < 2 * x_pos + 2
            /\ 2 * y_pos <= S - new_h /\ S - new_h < 2 * y_pos + 2
            /\ 0 <= x_pos /\ x_pos + new_w <= S
            /\ 0 <= y_pos /\ y_pos + new_h <= S
            /\ ((S - new_w - x_pos) - x_pos) \in {0, 1}
            /\ ((S - new_h - y_pos) - y_pos) \in {0, 1}

\* C6 witness: a 3 x 10 image on the 64 px canvas leaves 45 columns, split
\* 22 left and 23 right.
C6_Witness ==
    /\ cur = 1 /\ width = 3 /\ height = 10
    /\ new_w = 19 /\ x_pos = 22 /\ y_pos = 0

\* C9: the icon files are written in list order; the files before the
\* current one are written and stay, the files after it are untouched; a
\* save that raised leaves the routine uncaught, with no diagnostic of a
\* handler, and nothing is written afterwards.
C9_NonTransactional ==
    (prog = "icons" /\ idx >= 1) =>
        /\ \A j \in 1..Len(Icons) :
             /\ j < idx => files[IconName(j)] = "new"
             /\ j > idx => files[IconName(j)] = files0[IconName(j)]
        /\ raised = "save" =>
             /\ pc = "crashed"
             /\ diag = "none"
             /\ idx \in 1..Len(Icons)
             /\ files[IconName(idx)] # "new"

\* C9 witness: the third save raised; two files are on disk, the last two
\* were never written.
C9_Witness ==
    /\ prog = "icons" /\ pc = "crashed" /\ raised = "save" /\ idx = 3
    /\ files[IconName(1)] = "new" /\ files[IconName(2)] = "new"
    /\ files[IconName(4)] = "absent" /\ files[IconName(5)] = "absent"

\* C10 as stated: in every iteration both sides of the resize target are at
\* least 1 and at most max_dim.
C10_Original ==
    cur >= 1 =>
        /\ 1 <= new_w /\ new_w <= max_dim
        /\ 1 <= new_h /\ new_h <= max_dim

-----------------------------------------------------------------------------
(* Properties of remove_background_and_inner_holes (SpecImg).              *)

\* The pixels 4-connected to a set through the allowed pixels.
RECURSIVE Grow(_, _)
Grow(allowed, set) ==
    LET more == set \cup { q \in allowed : Adjacent(q) \cap set # {} }
    IN  IF more = set THEN set ELSE Grow(allowed, more)

\* Opaque and each of R, G, B above 255 - fuzz.
Whitish(c) == c[1] > 255 - Fuzz /\ c[2] > 255 - Fuzz /\ c[3] > 255 - Fuzz /\ c[4] > 0

\* The near-white region of raster r around pixel p.
WhitishRegion(r, p) == Grow({ q \in DOMAIN r : Whitish(r[q]) }, {p})

\* The pixels connected to s through pixels within Fuzz of the colour of s.
FuzzRegion(r, s) ==
    Grow({ q \in DOMAIN r : ColorDiff(r[q], r[s]) <= Fuzz }, {s})

OnBorder(p, w, h) == p[1] = 0 \/ p[2] = 0 \/ p[1] = w - 1 \/ p[2] = h - 1
Corners(w, h) == { << 0, 0 >>, << w - 1, 0 >>, << 0, h - 1 >>, << w - 1, h - 1 >> }

\* Rows of the scan window whose centre pixel is opaque and near-white.
WindowHits(r, w, h) ==
    { y \in 0..(((2 * h) \div 5) - 1) : Whitish(r[<< w \div 2, y >>]) }

LeastOf(S) == CHOOSE a \in S : \A b \in S : a <= b

\* The scan seeds one flood at the first hit of the window, or none.
ScanSeedsFirstHit ==
    LET hits == WindowHits(before, width, height)
    IN  IF hits = {}
        THEN seed = NoSeed /\ img = before
        ELSE seed = << width \div 2, LeastOf(hits) >> /\ img[seed] = Clear

\* A uniform white border, one pixel wide, around an interior whose
\* non-white pixels all differ from white by more than Fuzz.
WhiteBordered(r, w, h) ==
    /\ w >= 3 /\ h >= 3
    /\ \A p \in DOMAIN r : OnBorder(p, w, h) => r[p] = White
    /\ \E p \in DOMAIN r : r[p] # White
    /\ \A p \in DOMAIN r : r[p] # White => ColorDiff(r[p], White) > Fuzz

\* The pixels on the four edges of a returned raster.
EdgePixels(r) ==
    LET xs == { p[1] : p \in DOMAIN r }
        ys == { p[2] : p \in DOMAIN r }
    IN  { p \in DOMAIN r :
            \/ \A x \in xs : p[1] <= x
            \/ \A x \in xs : p[1] >= x
            \/ \A y \in ys : p[2] <= y
            \/ \A y \in ys : p[2] >= y }

\* C3: for an input with a uniform white border around an interior shape
\* farther than Fuzz from white, the returned image has no opaque pixel on
\* its first or last row or column, and the crop that produced it stayed
\* inside the input (its edges are cleared border pixels, not padding).
C3_EdgesTransparent ==
    (pc = "done" /\ WhiteBordered(src, width, height)) =>
        /\ \A p \in EdgePixels(img) : img[p][4] = 0
        /\ cropBox # NoBox =>
             /\ 0 <= cropBox[1] /\ 0 <= cropBox[2]
             /\ cropBox[3] <= width /\ cropBox[4] <= height

\* C3 witness: a white-bordered input was trimmed and the shape is still
\* opaque inside the returned image.
C3_Witness ==
    /\ pc = "done" /\ WhiteBordered(src, width, height)
    /\ cropBox # NoBox
    /\ \E p \in DOMAIN img : img[p] = Dark

\* C4 as stated: the scan seeds one flood at the first opaque near-white
\* pixel of the window (none if there is none); every near-white region of
\* the input that crosses the centre line inside the window and touches no
\* image border is fully transparent afterwards; every near-white region of
\* the input that lies at rows >= int(0.4*height), holds no corner and is not
\* the seeded region is unchanged.
C4_Original ==
    pc = "trim" =>
        /\ ScanSeedsFirstHit
        /\ \A p \in DOMAIN src :
             Whitish(src[p]) =>
               LET R == WhitishRegion(src, p)
                   depth == (2 * height) \div 5
               IN  /\ ( /\ \E q \in R : q[1] = width \div 2 /\ q[2] < depth
                        /\ \A q \in R : ~OnBorder(q, width, height) )
                        => \A q \in R : img[q][4] = 0
                   /\ ( /\ \A q \in R : q[2] >= depth
                        /\ R \cap Corners(width, height) = {}
                        /\ seed \notin R )
                        => \A q \in R : img[q] = src[q]

\* C4 amended: the scan seeds one flood at the first opaque near-white
\* pixel of the window (none if there is none); that flood clears exactly
\* the pixels 4-connected to the seed through pixels within Fuzz (1-norm
\* over RGBA) of the seed's colour and changes nothing else; and a pixel
\* that is not so connected to the seed nor to any corner still has its
\* input value after the scan.
C4_HoleFlood ==
    pc = "trim" =>
        /\ ScanSeedsFirstHit
        /\ seed # NoSeed =>
             LET flooded == FuzzRegion(before, seed)
             IN  \A q \in DOMAIN img :
                   img[q] = IF q \in flooded THEN Clear ELSE before[q]
        /\ LET reached == UNION { FuzzRegion(src, c) :
                                    c \in Corners(width, height) \cup
                                           (IF seed = NoSeed THEN {} ELSE {seed}) }
           IN  \A q \in DOMAIN src : q \notin reached => img[q] = src[q]

\* C4 witness: on a 3 x 5 input the hole at (1, 1) was seeded and cleared
\* while the white pixel at (1, 3), below the window, is still opaque.
C4_Witness ==
    /\ pc = "trim" /\ width = 3 /\ height = 5
    /\ seed = << 1, 1 >>
    /\ src[<< 1, 1 >>] = White /\ img[<< 1, 1 >>] = Clear
    /\ src[<< 1, 2 >>] = Dark
    /\ src[<< 1, 3 >>] = White /\ img[<< 1, 3 >>] = White

\* C7 as stated: the rectangle handed to crop lies inside the image.
C7_Original ==
    (pc = "done" /\ cropBox # NoBox) =>
        /\ 0 <= cropBox[1] /\ 0 <= cropBox[2]
        /\ cropBox[3] <= width /\ cropBox[4] <= height

=============================================================================
